---- MODULE Spec2Model ----
(***************************************************************************)
(* The background worker of src/main.py: main() schedules job() every     *)
(* hour, runs it once at startup and then polls schedule.run_pending()    *)
(* once a second.  job() fetches the USD/UAH rate with one HTTP GET and,  *)
(* when a rate came back, sends it to the GA4 collector with one HTTP     *)
(* POST.  Time is counted in whole seconds and kept relative to the       *)
(* scheduler's next_run, so the state space is finite.                    *)
(***************************************************************************)
EXTENDS Integers, Sequences, FiniteSets, TLC

VARIABLES
    pc,          \* position of main(): "main", "job", "run_pending", "sleep",
                 \* "log_unexpected", "cooldown", "stopped", "crashed"
    caller,      \* who called job(): "main" (line 110), "run_pending" (line 114)
    jpc,         \* position inside job(): "none", "get", "scan", "if", "post", "ret"
    until_next,  \* the schedule's next_run minus the clock, in seconds, never below 0
    since_start, \* seconds since job() was last entered, counted up to Hour
    data,        \* get_uah_usd_rate's local: the parsed body of this run's response,
                 \* kept until the run returns
    rate,        \* job's local: what get_uah_usd_rate returned in this run
    get_resp,    \* how this run's GET ended
    post_resp,   \* how this run's POST ended
    payload,     \* the body of this run's POST
    gets,        \* GETs issued in this run
    posts,       \* POSTs issued in this run
    log,         \* lines job() and its callees logged in this run
    mainlog,     \* lines main() logged
    exc,         \* the exception that left job() or the loop body
    sig_at,      \* where the process was when the interrupt signal arrived
    last_end,    \* how the previous job run ended: "none", "returned", "raised"
    start_gap,   \* seconds between the entry of this run and of the one before
    sent,        \* client_id and session_id of the first MaxSends POSTs
    since_send,  \* seconds since the last timestamp was taken, counted up to MaxAge
    ts_delta     \* this POST's timestamp_micros minus the one of the POST before

vars == <<pc, caller, jpc, until_next, since_start, data, rate, get_resp, post_resp, payload,
          gets, posts, log, mainlog, exc, sig_at, last_end, start_gap, sent,
          since_send, ts_delta>>

-----------------------------------------------------------------------------
(* Bounds of the model *)

MaxLen == 2      \* records in a response body
MaxRate == 1     \* rates are 0..MaxRate
MaxSends == 2    \* POSTs whose identifiers are recorded in sent
MaxAge == 2      \* since_send is counted up to MaxAge seconds

(* Constants of the program *)

Timeout == 10         \* requests.get(url, timeout=10), requests.post(..., timeout=10)
SleepSecs == 1        \* time.sleep(1)
CooldownSecs == 60    \* time.sleep(60)
Hour == 3600          \* schedule.every().hour
SuccessStatus == 204  \* the status the collector answers on success

-----------------------------------------------------------------------------
(* Values *)

None == <<>>                 \* Python's None; a rate r is <<r>>
Some(r) == <<r>>
Rates == {Some(r) : r \in 0..MaxRate}

CLIENT_ID == "client"

\* One element of the JSON array: a dict with "cc" and an optional "rate", or
\* anything that is not a dict (a string, a number, null).
Dicts == [dict : {TRUE}, cc : {"USD", "EUR"}, rate : Rates \cup {None}]
NonDict == [dict |-> FALSE, cc |-> "", rate |-> None]
Items == Dicts \cup {NonDict}

Bodies == UNION {[1..n -> Items] : n \in 0..MaxLen}

GetStatuses == {200, 300, 404, 500}
PostStatuses == {200, 204, 500}

\* seconds a call to requests.get or requests.post takes before it returns or
\* raises: at once, after a second, or when the timeout of the call expires
Durations == {0, 1, Timeout}

TransportErrors == {"Timeout", "ConnectionError"}

\* A response of the rate source: its status and its body, which parses as JSON
\* (json = TRUE, body the array) or does not.
GetResponses ==
    [status : GetStatuses, json : {TRUE}, body : Bodies]
        \cup [status : GetStatuses, json : {FALSE}, body : {<<>>}]

\* How a call ended: not yet, with a transport error, or with a response of
\* some status; parsed says that response.json() returned the body.
NoResp == [kind |-> "none", status |-> 0, parsed |-> FALSE]
ErrResp(e) == [kind |-> e, status |-> 0, parsed |-> FALSE]
StatusResp(s, p) == [kind |-> "response", status |-> s, parsed |-> p]

NoPayload == [client_id |-> "", timestamp_micros |-> 0, rate |-> None, session_id |-> 0]
NoSig == [pc |-> "none", jpc |-> "none", caller |-> "none"]

Max0(n) == IF n < 0 THEN 0 ELSE n
MinHour(n) == IF n > Hour THEN Hour ELSE n
MinAge(n) == IF n > MaxAge THEN MaxAge ELSE n

-----------------------------------------------------------------------------
(* Exceptions *)

\* requests.exceptions.RequestException and the subclasses raised here.  A body
\* that is not JSON makes response.json() raise requests' JSONDecodeError, a
\* RequestException (requests 2.27 and later).
RequestExceptions == {"Timeout", "ConnectionError", "HTTPError", "JSONDecodeError"}

\* Mutants of FetchCatches: only timeouts are caught; a bare except
FetchCatchesTimeoutOnly(e) == e = "Timeout"
FetchCatchesAll(e) == TRUE

\* except requests.exceptions.RequestException, in get_uah_usd_rate
FetchCatches(e) == e \in RequestExceptions

\* except requests.exceptions.RequestException, in send_event_to_ga4
SendCatches(e) == e \in RequestExceptions

\* except KeyboardInterrupt, in main
CatchesInterrupt(e) == e = "KeyboardInterrupt"

\* Mutant of CatchesException: the clause names RequestException
CatchesRequestExceptionOnly(e) == e \in RequestExceptions

\* except Exception, in main: KeyboardInterrupt derives from BaseException only
CatchesException(e) == e # "KeyboardInterrupt"

\* response.raise_for_status() raises HTTPError for 4xx and 5xx statuses
RaisesForStatus(status) == status >= 400 /\ status < 600

\* Mutant of IsSuccess: any 2xx status counts as success
IsSuccessAny2xx(status) == status >= 200 /\ status < 300

\* response.status_code == 204
IsSuccess(status) == status = SuccessStatus

\* Mutant of RateObtained: the test is dropped
RateObtainedAlways(r) == TRUE

\* rate is not None
RateObtained(r) == r # None

\* The statements of main() inside try: schedule.run_pending(), with the job
\* it calls, and time.sleep(1).  The startup job() and the handlers are outside.
InTry(p, c) == p \in {"run_pending", "sleep"} \/ (p = "job" /\ c = "run_pending")

\* Where main() is after exception e is raised at position p: the interrupt
\* handler logs and breaks, the Exception handler logs and sleeps, and an
\* exception outside try, or caught by neither clause, ends the process.
Landing(e, p, c) ==
    IF ~InTry(p, c) THEN "crashed"
    ELSE IF CatchesInterrupt(e) THEN "stopped"
    ELSE IF CatchesException(e) THEN "log_unexpected"
    ELSE "crashed"

-----------------------------------------------------------------------------
(* get_uah_usd_rate: the scan of the records *)

RECURSIVE ScanNoCcTest(_, _)
\* Mutant of ScanFrom: the currency code is not compared
ScanNoCcTest(d, i) ==
    IF i > Len(d) THEN [raises |-> FALSE, rate |-> None, line |-> "usd_not_found"]
    ELSE IF ~d[i].dict THEN [raises |-> TRUE, rate |-> None, line |-> ""]
    ELSE [raises |-> FALSE, rate |-> d[i].rate, line |-> "fetched"]

RECURSIVE ScanNoWarning(_, _)
\* Mutant of ScanFrom: the scan falls off the end without the warning
ScanNoWarning(d, i) ==
    IF i > Len(d) THEN [raises |-> FALSE, rate |-> None, line |-> "fetched"]
    ELSE IF ~d[i].dict THEN [raises |-> TRUE, rate |-> None, line |-> ""]
    ELSE IF d[i].cc = "USD" THEN [raises |-> FALSE, rate |-> d[i].rate, line |-> "fetched"]
    ELSE ScanNoWarning(d, i + 1)

RECURSIVE ScanSkipsNullRate(_, _)
\* Mutant of ScanFrom: a USD record without a rate is passed over
ScanSkipsNullRate(d, i) ==
    IF i > Len(d) THEN [raises |-> FALSE, rate |-> None, line |-> "usd_not_found"]
    ELSE IF ~d[i].dict THEN [raises |-> TRUE, rate |-> None, line |-> ""]
    ELSE IF d[i].cc = "USD" /\ d[i].rate # None
    THEN [raises |-> FALSE, rate |-> d[i].rate, line |-> "fetched"]
    ELSE ScanSkipsNullRate(d, i + 1)

RECURSIVE ScanFrom(_, _)
\* for item in data: if item.get("cc") == "USD": return item.get("rate")
\* An element that is not a dict has no get(): AttributeError.
ScanFrom(d, i) ==
    IF i > Len(d) THEN [raises |-> FALSE, rate |-> None, line |-> "usd_not_found"]
    ELSE IF ~d[i].dict THEN [raises |-> TRUE, rate |-> None, line |-> ""]
    ELSE IF d[i].cc = "USD" THEN [raises |-> FALSE, rate |-> d[i].rate, line |-> "fetched"]
    ELSE ScanFrom(d, i + 1)

Scan(d) == ScanFrom(d, 1)

\* uuid.uuid4(): the call after n earlier calls returns a value none of them returned
Uuid4(n) == n + 1

\* Mutant of SessionId: one identifier made at import, like CLIENT_ID
SessionIdAtImport(n) == Uuid4(0)

\* session_id = str(uuid.uuid4()), in the send that follows n earlier sends
SessionId(n) == Uuid4(n)

\* Mutant of TimestampMicros: the seconds are not scaled
TimestampSeconds(t) == t

\* int(datetime.now(tz=timezone.utc).timestamp() * 1_000_000), with the clock
\* reading t seconds
TimestampMicros(t) == t * 1000000

\* Mutant of Payload: a fixed rate is sent
PayloadFixedRate(r) ==
    [client_id |-> CLIENT_ID, timestamp_micros |-> TimestampMicros(since_start),
     rate |-> Some(0), session_id |-> SessionId(Len(sent))]

\* The JSON body of the POST: client_id, timestamp_micros (counted from the
\* entry of this run) and the event's parameters rate and session_id.
Payload(r) ==
    [client_id |-> CLIENT_ID, timestamp_micros |-> TimestampMicros(since_start),
     rate |-> r, session_id |-> SessionId(Len(sent))]

-----------------------------------------------------------------------------
(* Initial state: the module is loaded, main() is about to run *)

Init ==
    /\ pc = "main"
    /\ caller = "none"
    /\ jpc = "none"
    /\ until_next = 0
    /\ since_start = 0
    /\ data = <<>>
    /\ rate = None
    /\ get_resp = NoResp
    /\ post_resp = NoResp
    /\ payload = NoPayload
    /\ gets = 0
    /\ posts = 0
    /\ log = {}
    /\ mainlog = {}
    /\ exc = "none"
    /\ sig_at = NoSig
    /\ last_end = "none"
    /\ start_gap = 0
    /\ sent = <<>>
    /\ since_send = 0
    /\ ts_delta = 0

\* d seconds pass
Elapse(d) ==
    /\ until_next' = Max0(until_next - d)
    /\ since_start' = MinHour(since_start + d)
    /\ since_send' = MinAge(since_send + d)

\* job() is entered from c: it logs, calls get_uah_usd_rate, and the GET is sent.
JobBegins(c) ==
    /\ pc' = "job"
    /\ caller' = c
    /\ jpc' = "get"
    /\ start_gap' = since_start
    /\ since_start' = 0
    /\ ts_delta' = 0
    /\ data' = <<>>
    /\ rate' = None
    /\ get_resp' = NoResp
    /\ post_resp' = NoResp
    /\ payload' = NoPayload
    /\ gets' = 1
    /\ posts' = 0
    /\ log' = {"starting"}

\* Exception e leaves job() or the loop body.
MainRaises(e) ==
    /\ pc' = Landing(e, pc, caller)
    /\ exc' = e
    /\ jpc' = "none"
    /\ caller' = "none"
    /\ mainlog' = IF Landing(e, pc, caller) = "stopped"
                  THEN mainlog \cup {"stopped_by_user"} ELSE mainlog
    /\ last_end' = IF pc = "job" THEN "raised" ELSE last_end

\* Exception e is raised inside the try of get_uah_usd_rate.
FetchRaises(e) ==
    IF FetchCatches(e)
    THEN /\ jpc' = "if"
         /\ rate' = None
         /\ log' = log \cup {"fetch_error"}
         /\ UNCHANGED <<pc, caller, exc, mainlog, last_end>>
    ELSE /\ MainRaises(e)
         /\ UNCHANGED <<rate, log>>

\* Exception e is raised inside the try of send_event_to_ga4.
SendRaises(e) ==
    IF SendCatches(e)
    THEN /\ jpc' = "ret"
         /\ log' = log \cup {"send_error"}
         /\ UNCHANGED <<pc, caller, exc, mainlog, last_end>>
    ELSE /\ MainRaises(e)
         /\ UNCHANGED log

-----------------------------------------------------------------------------
(* main *)

\* Mutant of MainStart: the startup call of job() is left out
MainStartNoJob ==
    /\ pc = "main"
    /\ until_next' = Hour
    /\ mainlog' = mainlog \cup {"started"}
    /\ pc' = "run_pending"
    /\ UNCHANGED <<caller, jpc, since_start, data, rate, get_resp, post_resp,
                   payload, gets, posts, log, exc, sig_at, last_end, start_gap,
                   sent, since_send, ts_delta>>

\* schedule.every().hour.do(job), the startup log line, and the call of job()
MainStart ==
    /\ pc = "main"
    /\ until_next' = Hour
    /\ mainlog' = mainlog \cup {"started"}
    /\ JobBegins("main")
    /\ UNCHANGED <<exc, sig_at, last_end, sent, since_send>>

\* schedule.run_pending(): the job runs when its next_run has come
RunPending ==
    /\ pc = "run_pending"
    /\ IF until_next = 0
       THEN JobBegins("run_pending")
       ELSE /\ pc' = "sleep"
            /\ UNCHANGED <<caller, jpc, since_start, data, rate, get_resp,
                           post_resp, payload, gets, posts, log, start_gap, ts_delta>>
    /\ UNCHANGED <<until_next, mainlog, exc, sig_at, last_end, sent, since_send>>

\* time.sleep(1)
Sleep ==
    /\ pc = "sleep"
    /\ pc' = "run_pending"
    /\ Elapse(SleepSecs)
    /\ UNCHANGED <<caller, jpc, data, rate, get_resp, post_resp, payload, gets,
                   posts, log, mainlog, exc, sig_at, last_end, start_gap, sent,
                   ts_delta>>

\* logging.error("An unexpected error occurred") in the Exception handler
LogUnexpected ==
    /\ pc = "log_unexpected"
    /\ pc' = "cooldown"
    /\ mainlog' = mainlog \cup {"unexpected_error"}
    /\ UNCHANGED <<caller, jpc, until_next, since_start, data, rate, get_resp,
                   post_resp, payload, gets, posts, log, exc, sig_at, last_end,
                   start_gap, sent, since_send, ts_delta>>

\* time.sleep(60) in the Exception handler, then the next iteration
Cooldown ==
    /\ pc = "cooldown"
    /\ pc' = "run_pending"
    /\ Elapse(CooldownSecs)
    /\ exc' = "none"
    /\ UNCHANGED <<caller, jpc, data, rate, get_resp, post_resp, payload, gets,
                   posts, log, mainlog, sig_at, last_end, start_gap, sent, ts_delta>>

-----------------------------------------------------------------------------
(* job, get_uah_usd_rate, send_event_to_ga4 *)

\* Mutant of GetFails: the GET is tried a second time after a transport error
GetFailsRetry ==
    /\ pc = "job" /\ jpc = "get"
    /\ \E e \in TransportErrors, d \in Durations :
        /\ e = "Timeout" => d = Timeout
        /\ Elapse(d)
        /\ IF gets < 2
           THEN /\ gets' = gets + 1
                /\ UNCHANGED <<pc, caller, jpc, rate, get_resp, log, exc, mainlog,
                               last_end>>
           ELSE /\ get_resp' = ErrResp(e)
                /\ FetchRaises(e)
                /\ UNCHANGED gets
    /\ UNCHANGED <<data, post_resp, payload, posts, sig_at, start_gap, sent, ts_delta>>

\* requests.get raises a transport error (a timeout after Timeout seconds)
GetFails ==
    /\ pc = "job" /\ jpc = "get"
    /\ \E e \in TransportErrors, d \in Durations :
        /\ e = "Timeout" => d = Timeout
        /\ get_resp' = ErrResp(e)
        /\ Elapse(d)
        /\ FetchRaises(e)
    /\ UNCHANGED <<data, post_resp, payload, gets, posts, sig_at, start_gap, sent,
                   ts_delta>>

\* requests.get returns a response; raise_for_status() and json() follow
GetReturns ==
    /\ pc = "job" /\ jpc = "get"
    /\ \E r \in GetResponses, d \in Durations :
        /\ get_resp' = StatusResp(r.status, ~RaisesForStatus(r.status) /\ r.json)
        /\ Elapse(d)
        /\ IF RaisesForStatus(r.status)
           THEN /\ r.body = <<>> /\ r.json
                /\ FetchRaises("HTTPError")
                /\ UNCHANGED data
           ELSE IF ~r.json
           THEN /\ FetchRaises("JSONDecodeError")
                /\ UNCHANGED data
           ELSE /\ data' = r.body
                /\ jpc' = "scan"
                /\ UNCHANGED <<pc, caller, rate, log, exc, mainlog, last_end>>
    /\ UNCHANGED <<post_resp, payload, gets, posts, sig_at, start_gap, sent, ts_delta>>

\* the for loop over data, up to the return of get_uah_usd_rate
ScanData ==
    /\ pc = "job" /\ jpc = "scan"
    /\ IF Scan(data).raises
       THEN FetchRaises("AttributeError")
       ELSE /\ rate' = Scan(data).rate
            /\ log' = log \cup {Scan(data).line}
            /\ jpc' = "if"
            /\ UNCHANGED <<pc, caller, exc, mainlog, last_end>>
    /\ UNCHANGED <<until_next, since_start, data, get_resp, post_resp, payload,
                   gets, posts, sig_at, start_gap, sent, since_send, ts_delta>>

\* if rate is not None: send_event_to_ga4(rate), up to the POST being sent;
\* else the error line
JobIf ==
    /\ pc = "job" /\ jpc = "if"
    /\ IF RateObtained(rate)
       THEN /\ payload' = Payload(rate)
            /\ posts' = posts + 1
            /\ log' = log \cup {"sending"}
            /\ jpc' = "post"
            /\ sent' = IF Len(sent) < MaxSends
                       THEN Append(sent, [client_id |-> payload'.client_id,
                                          session_id |-> payload'.session_id])
                       ELSE sent
            /\ ts_delta' = IF sent = <<>> THEN 0 ELSE TimestampMicros(since_send)
            /\ since_send' = 0
       ELSE /\ log' = log \cup {"not_sent"}
            /\ jpc' = "ret"
            /\ UNCHANGED <<payload, posts, sent, ts_delta, since_send>>
    /\ UNCHANGED <<pc, caller, until_next, since_start, data, rate, get_resp,
                   post_resp, gets, mainlog, exc, sig_at, last_end, start_gap>>

\* requests.post raises a transport error
PostFails ==
    /\ pc = "job" /\ jpc = "post"
    /\ \E e \in TransportErrors, d \in Durations :
        /\ e = "Timeout" => d = Timeout
        /\ post_resp' = ErrResp(e)
        /\ Elapse(d)
        /\ SendRaises(e)
    /\ UNCHANGED <<data, rate, get_resp, payload, gets, posts, sig_at, start_gap,
                   sent, ts_delta>>

\* Mutant of PostReturns: a POST answered with another status is sent again
PostReturnsRetry ==
    /\ pc = "job" /\ jpc = "post"
    /\ \E s \in PostStatuses, d \in Durations :
        /\ post_resp' = StatusResp(s, FALSE)
        /\ Elapse(d)
        /\ log' = log \cup {"response", IF IsSuccess(s) THEN "sent_ok" ELSE "send_failed"}
        /\ IF ~IsSuccess(s) /\ posts < 2
           THEN jpc' = "post" /\ posts' = posts + 1
           ELSE jpc' = "ret" /\ UNCHANGED posts
    /\ UNCHANGED <<pc, caller, data, rate, get_resp, payload, gets, mainlog,
                   exc, sig_at, last_end, start_gap, sent, ts_delta>>

\* requests.post returns a response: 204 is logged as success, the rest as failure
PostReturns ==
    /\ pc = "job" /\ jpc = "post"
    /\ \E s \in PostStatuses, d \in Durations :
        /\ post_resp' = StatusResp(s, FALSE)
        /\ Elapse(d)
        /\ log' = log \cup {"response", IF IsSuccess(s) THEN "sent_ok" ELSE "send_failed"}
    /\ jpc' = "ret"
    /\ UNCHANGED <<pc, caller, data, rate, get_resp, payload, gets, posts, mainlog,
                   exc, sig_at, last_end, start_gap, sent, ts_delta>>

\* Mutant of JobReturn: the schedule is not moved on after the run
JobReturnNoReschedule ==
    /\ pc = "job" /\ jpc = "ret"
    /\ pc' = IF caller = "main" THEN "run_pending" ELSE "sleep"
    /\ UNCHANGED until_next
    /\ UNCHANGED since_start
    /\ caller' = "none"
    /\ jpc' = "none"
    /\ data' = <<>>
    /\ rate' = None
    /\ get_resp' = NoResp
    /\ post_resp' = NoResp
    /\ payload' = NoPayload
    /\ gets' = 0
    /\ posts' = 0
    /\ log' = {}
    /\ last_end' = "returned"
    /\ start_gap' = 0
    /\ ts_delta' = 0
    /\ UNCHANGED <<mainlog, exc, sig_at, sent, since_send>>

\* Mutant of JobReturn: the schedule is moved on only after a successful send
JobReturnRescheduleOnSuccess ==
    /\ pc = "job" /\ jpc = "ret"
    /\ pc' = IF caller = "main" THEN "run_pending" ELSE "sleep"
    /\ until_next' = IF caller = "main" \/ "sent_ok" \notin log THEN until_next ELSE Hour
    /\ UNCHANGED since_start
    /\ caller' = "none"
    /\ jpc' = "none"
    /\ data' = <<>>
    /\ rate' = None
    /\ get_resp' = NoResp
    /\ post_resp' = NoResp
    /\ payload' = NoPayload
    /\ gets' = 0
    /\ posts' = 0
    /\ log' = {}
    /\ last_end' = "returned"
    /\ start_gap' = 0
    /\ ts_delta' = 0
    /\ UNCHANGED <<mainlog, exc, sig_at, sent, since_send>>

\* job() returns: to main() after the startup run, and in the loop to the
\* schedule, which sets next_run an hour ahead before run_pending() returns
JobReturn ==
    /\ pc = "job" /\ jpc = "ret"
    /\ IF caller = "main"
       THEN pc' = "run_pending" /\ UNCHANGED until_next
       ELSE pc' = "sleep" /\ until_next' = Hour
    /\ UNCHANGED since_start
    /\ caller' = "none"
    /\ jpc' = "none"
    /\ data' = <<>>
    /\ rate' = None
    /\ get_resp' = NoResp
    /\ post_resp' = NoResp
    /\ payload' = NoPayload
    /\ gets' = 0
    /\ posts' = 0
    /\ log' = {}
    /\ last_end' = "returned"
    /\ start_gap' = 0
    /\ ts_delta' = 0
    /\ UNCHANGED <<mainlog, exc, sig_at, sent, since_send>>

-----------------------------------------------------------------------------
(* The interrupt signal: KeyboardInterrupt is raised where the process is *)

Interrupt ==
    /\ pc \notin {"stopped", "crashed"}
    /\ sig_at = NoSig
    /\ sig_at' = [pc |-> pc, jpc |-> jpc, caller |-> caller]
    /\ IF pc = "job" /\ jpc \in {"get", "scan"}
       THEN FetchRaises("KeyboardInterrupt")
       ELSE IF pc = "job" /\ jpc = "post"
       THEN SendRaises("KeyboardInterrupt") /\ UNCHANGED rate
       ELSE MainRaises("KeyboardInterrupt") /\ UNCHANGED <<rate, log>>
    /\ UNCHANGED <<until_next, since_start, data, get_resp, post_resp, payload,
                   gets, posts, start_gap, sent, since_send, ts_delta>>

Next ==
    \/ MainStart
    \/ RunPending
    \/ Sleep
    \/ LogUnexpected
    \/ Cooldown
    \/ GetFails
    \/ GetReturns
    \/ ScanData
    \/ JobIf
    \/ PostFails
    \/ PostReturns
    \/ JobReturn
    \/ Interrupt

Spec == Init /\ [][Next]_vars

\* The executions in which no interrupt signal arrives, every HTTP call ends
\* and every sleep returns: each step of the program is eventually taken.
LiveNext ==
    \/ MainStart
    \/ RunPending
    \/ Sleep
    \/ LogUnexpected
    \/ Cooldown
    \/ GetFails
    \/ GetReturns
    \/ ScanData
    \/ JobIf
    \/ PostFails
    \/ PostReturns
    \/ JobReturn

LiveSpec == Init /\ [][LiveNext]_vars /\ WF_vars(LiveNext)

-----------------------------------------------------------------------------
(* Properties *)

InJob == pc = "job"
IsUSD(item) == item.dict /\ item.cc = "USD"
FirstUSDAt(d, i) == IsUSD(d[i]) /\ \A j \in 1..(i - 1) : ~IsUSD(d[j])
AllDicts(d) == \A i \in 1..Len(d) : d[i].dict
FetchDone == jpc \in {"if", "post", "ret"}
Interrupted == sig_at # NoSig

\* C1: no POST is ever issued with a missing rate: whenever this run has
\* issued a POST, the rate get_uah_usd_rate returned in this run is not None
\* and is the rate the POST carries.
C1_NoNullRateSent ==
    posts > 0 => (rate # None /\ payload.rate # None /\ payload.rate = rate)

C1_Witness ==
    InJob /\ caller = "run_pending" /\ jpc = "post" /\ posts = 1 /\ payload.rate = Some(1)

\* C2: the process never terminates because of an error: a process that has
\* ended (stopped by the handler or ended by an uncaught exception) has
\* received an interrupt signal.
C2_OnlyInterruptStops ==
    pc \in {"stopped", "crashed"} => Interrupted

\* What C3 says of a run whose GET ended in a failure: get_uah_usd_rate does
\* not raise, returns None and logs the error, and the run issues no POST.
FetchFailureAbsorbed ==
    /\ posts = 0
    /\ exc \in {"none", "KeyboardInterrupt"}
    /\ FetchDone => (rate = None /\ "fetch_error" \in log)

\* C3 as stated: a timeout, a connection error and a response whose status is
\* not 2xx are failures of the fetch, absorbed as above.
C3_Non2xxIsFailure ==
    (get_resp.kind \in TransportErrors
        \/ (get_resp.kind = "response" /\ get_resp.status \notin 200..299))
    => FetchFailureAbsorbed

\* C3 amended: a timeout, a connection error and a response whose status is
\* 4xx or 5xx (the statuses raise_for_status() raises for) are failures of
\* the fetch, absorbed as above, and the body of such a response is not parsed.
C3_TransportFailureAbsent ==
    (get_resp.kind \in TransportErrors
        \/ (get_resp.kind = "response" /\ get_resp.status \in 400..599))
    => (FetchFailureAbsorbed /\ ~get_resp.parsed /\ jpc # "scan")

C3_Witness ==
    /\ InJob /\ jpc = "ret" /\ caller = "run_pending"
    /\ get_resp.kind = "ConnectionError" /\ rate = None /\ posts = 0
    /\ "fetch_error" \in log

\* C4: once get_uah_usd_rate has returned from a parsed response, the rate it
\* returned is the rate field of the record with cc = "USD" that the response
\* holds, at whatever position it stands and whatever records of other
\* currencies surround it (of several USD records, the first).
C4_ReturnsUsdRate ==
    (FetchDone /\ get_resp.parsed) =>
        \A i \in 1..Len(data) : FirstUSDAt(data, i) => rate = data[i].rate

C4_Witness ==
    /\ InJob /\ jpc = "if" /\ Len(data) = 2
    /\ data[1].dict /\ data[1].cc = "EUR" /\ data[1].rate = Some(0)
    /\ IsUSD(data[2]) /\ data[2].rate = Some(1) /\ rate = Some(1)

\* C5: a job run whose fetch obtained a rate r has, when job() returns, issued
\* exactly one POST, and that POST carries r.
C5_OnePostWithFetchedRate ==
    (InJob /\ jpc = "ret" /\ rate # None) => (posts = 1 /\ payload.rate = rate)

C5_Witness ==
    /\ InJob /\ jpc = "ret" /\ caller = "run_pending"
    /\ rate = Some(1) /\ posts = 1 /\ payload.rate = Some(1)

\* C6: once get_uah_usd_rate has returned from a parsed response whose records
\* hold no cc = "USD", it has returned None and logged the warning, and the
\* run issues no POST.
C6_NoUsdAbsent ==
    (FetchDone /\ get_resp.parsed /\ AllDicts(data)
        /\ \A i \in 1..Len(data) : ~IsUSD(data[i]))
    => /\ rate = None /\ "usd_not_found" \in log /\ posts = 0
       /\ jpc # "post"
       /\ jpc = "ret" => "not_sent" \in log

C6_Witness ==
    /\ InJob /\ jpc = "ret" /\ get_resp.parsed /\ Len(data) = 1
    /\ data[1].dict /\ data[1].cc = "EUR" /\ data[1].rate = Some(0)
    /\ "usd_not_found" \in log /\ "not_sent" \in log /\ posts = 0

\* C7: once the POST has ended, success is logged exactly when the collector
\* answered 204 and a failure is logged in every other case, and
\* send_event_to_ga4 has returned to job() without an exception.
C7_SuccessIff204 ==
    post_resp.kind # "none" =>
        /\ "sent_ok" \in log <=> (post_resp.kind = "response" /\ post_resp.status = 204)
        /\ ("send_failed" \in log \/ "send_error" \in log) <=> "sent_ok" \notin log
        /\ "send_error" \in log <=> post_resp.kind \in TransportErrors
        /\ ~Interrupted => (InJob /\ jpc = "ret" /\ exc = "none")

C7_Witness ==
    /\ InJob /\ jpc = "ret" /\ post_resp.kind = "response" /\ post_resp.status = 500
    /\ "send_failed" \in log /\ "sent_ok" \notin log

\* C8: with no interrupt, an exception other than KeyboardInterrupt that leaves
\* the job run by the loop is caught by the loop; the handler logs the error,
\* sleeps 60 seconds, and the loop goes on with the next run_pending().
C8_CooldownThenResume ==
    [][~Interrupted' =>
        /\ (InJob /\ caller = "run_pending" /\ exc = "none" /\ exc' # "none")
               => pc' = "log_unexpected"
        /\ pc = "log_unexpected"
               => (pc' = "cooldown" /\ "unexpected_error" \in mainlog')
        /\ pc = "cooldown"
               => /\ pc' = "run_pending"
                  /\ since_start' = MinHour(since_start + 60)
                  /\ "unexpected_error" \in mainlog']_vars

C8_Witness ==
    /\ pc = "run_pending" /\ "unexpected_error" \in mainlog /\ exc = "none"
    /\ since_start = 60 /\ ~Interrupted

\* C9: an interrupt signal, wherever it arrives (startup run, pending-check,
\* in-loop job, 1-second sleep, cooldown), makes the loop exit through the
\* handler, which logs the shutdown line.
C9_InterruptStopsCleanly ==
    (Interrupted /\ sig_at.pc \in {"job", "run_pending", "sleep", "cooldown"})
    => (pc = "stopped" /\ "stopped_by_user" \in mainlog)

\* C10 as stated: an interrupt that arrived while the GET or the POST was in
\* flight is honored only after that call has ended (with a response or an
\* error of its own).
C10_CallCompletesFirst ==
    (sig_at.jpc \in {"get", "post"} /\ pc \in {"stopped", "crashed"})
    => IF sig_at.jpc = "get" THEN get_resp # NoResp ELSE post_resp # NoResp

\* C10 amended: an interrupt that arrives while the GET or the POST is in
\* flight is honored at once: the call is abandoned without a result, the
\* KeyboardInterrupt passes the RequestException handlers, and main() ends,
\* through its interrupt handler when the job was run by the loop and by the
\* uncaught exception when it was the startup run.
C10_InterruptAbortsCall ==
    sig_at.jpc \in {"get", "post"} =>
        /\ exc = "KeyboardInterrupt"
        /\ IF sig_at.jpc = "get" THEN get_resp = NoResp ELSE post_resp = NoResp
        /\ pc = (IF sig_at.caller = "run_pending" THEN "stopped" ELSE "crashed")
        /\ pc = "stopped" => "stopped_by_user" \in mainlog

C10_Witness ==
    /\ sig_at.jpc = "post" /\ sig_at.caller = "run_pending"
    /\ pc = "stopped" /\ post_resp = NoResp /\ posts = 1

-----------------------------------------------------------------------------
(* Properties of the schedule, of the identifiers and of the timestamps *)

InLoop == pc \in {"run_pending", "sleep", "log_unexpected", "cooldown"}
LoopRun == InJob /\ caller = "run_pending"
SendFailed ==
    \/ post_resp.kind \in TransportErrors
    \/ (post_resp.kind = "response" /\ post_resp.status # 204)

\* C11: the startup run is the first thing main() does: it is entered with no
\* time passed since the schedule was set and before any run has ended, and
\* the loop (pending-check, sleep, handlers) is only reached once a run has
\* ended; a startup run is never entered a second time.
C11_StartupRunFirst ==
    /\ (InJob /\ caller = "main") =>
           /\ last_end = "none"
           /\ until_next = Hour - since_start
           /\ jpc = "get" => (since_start = 0 /\ gets = 1)
    /\ InLoop => last_end # "none"
    /\ pc = "main" => (last_end = "none" /\ mainlog = {})

C11_Witness ==
    /\ InJob /\ caller = "main" /\ jpc = "post" /\ posts = 1
    /\ last_end = "none" /\ since_start = 0 /\ until_next = Hour

\* C12: once the POST of a run has ended, the run issues no other POST; a run
\* whose send failed returns with no POST pending and with the schedule's next
\* run still ahead; and while the next run is ahead the loop issues no POST.
C12_NoRetryBeforeTick ==
    [][~Interrupted' =>
        /\ (InJob /\ post_resp.kind # "none") => posts' <= posts
        /\ (InJob /\ jpc = "post") => (jpc' = "ret" /\ posts' = posts)
        /\ (InJob /\ jpc = "ret" /\ SendFailed)
               => (InLoop' /\ until_next' > 0 /\ posts' = 0 /\ sent' = sent)
        /\ (InLoop /\ until_next > 0)
               => (~InJob' /\ posts' = 0 /\ sent' = sent)]_vars

C12_Witness ==
    /\ LoopRun /\ jpc = "ret" /\ posts = 1
    /\ post_resp.kind = "response" /\ post_resp.status = 500
    /\ "send_failed" \in log

C14_JobStartedForever == []<>(InJob /\ jpc = "get")

C17_RunsIndependent ==
    /\ [][(InJob /\ jpc = "ret" /\ ~Interrupted') =>
            /\ pc' = (IF caller = "main" THEN "run_pending" ELSE "sleep")
            /\ until_next' = (IF caller = "main" THEN until_next ELSE Hour)
            /\ rate' = None /\ data' = <<>> /\ payload' = NoPayload
            /\ gets' = 0 /\ posts' = 0 /\ log' = {}
            /\ mainlog' = mainlog /\ exc' = exc]_vars
    /\ [](InJob /\ jpc = "get" =>
            /\ rate = None /\ data = <<>> /\ payload = NoPayload
            /\ posts = 0 /\ log = {"starting"}
            /\ caller = "run_pending" => until_next = 0)

C17_Witness ==
    /\ LoopRun /\ jpc = "post" /\ last_end = "returned" /\ start_gap = Hour
    /\ Len(sent) = 1 /\ payload.session_id = 1 /\ payload.rate = Some(1)

C19_FirstUsdWithoutRate ==
    (FetchDone /\ get_resp.parsed
        /\ \E i \in 1..Len(data) : FirstUSDAt(data, i) /\ data[i].rate = None)
    => /\ rate = None
       /\ "usd_not_found" \notin log /\ "fetched" \in log
       /\ posts = 0 /\ jpc # "post"
       /\ jpc = "ret" => "not_sent" \in log

C19_Witness ==
    /\ InJob /\ jpc = "ret" /\ Len(data) = 2
    /\ IsUSD(data[1]) /\ data[1].rate = None
    /\ IsUSD(data[2]) /\ data[2].rate = Some(1)
    /\ rate = None /\ "not_sent" \in log /\ posts = 0

====
